---- MODULE Spec2Model ----
(***************************************************************************)
(* A model of the Unpoly core: the protocol that opens an overlay layer    *)
(* (up.Change.OpenLayer), the layer stack it mutates, and the scroll       *)
(* computation of up.RevealMotion.                                         *)
(***************************************************************************)
EXTENDS Integers, Sequences, FiniteSets, TLC

\* Number of OpenLayer changes that may be started in one behaviour.
MaxChanges == 2

Changes == 1..MaxChanges

\* The root layer; the layer built by change c is identified with c.
Root == 0
Layers == 0..MaxChanges

\* "No layer" / "no element".
None == -1
NoElement == "undefined"

\* Target selectors a change may be given; ":none" opens a layer without content.
Targets == {":none", ".target"}

\* A response document is modelled by the set of selectors matching in it.
\* ":none" is no CSS selector and never matches.
ResponseDocs == SUBSET {".target"}

VARIABLES
  stack,         \* up.layer.stack: the sequence of layers, root first
  lifecycle,     \* Layer -> "unbuilt" | "opening" | "open" | "closing" | "closed"
  parent,        \* Layer -> the layer it was opened on (None for root / unbuilt)
  pc,            \* Change -> position of the change in its protocol
  callStack,     \* the changes whose execute() is on the JavaScript call stack
  change,        \* Change -> [target, baseLayer, mode, context, content, preflight]
  response,      \* Change -> [doc, closeSignal]: the response given to execute()
  result,        \* Change -> [kind, layer, fragments]: outcome of execute()
  log,           \* Change -> the calls execute() has made so far, in order
  stackBefore,   \* Change -> the stack when the running execute() was entered
  peeled,        \* Change -> the layers the peel of the running execute() closes
  animation,     \* Change -> "none" | "running" | "fulfilled" | "rejected"
  focusCalls,    \* Change -> number of calls of handleFocus()
  finishedCalls, \* Change -> number of calls of onFinished()
  motion,        \* the up.RevealMotion instance under study (or NoMotion)
  scrollTop,     \* viewport.scrollTop
  scrollToCalls, \* arguments of the viewport.scrollTo() calls made
  motionState,   \* "new" | "ready" | "done" | "failed"
  options,       \* the options given to the up.ResponseDoc constructor
  responseDoc,   \* the up.ResponseDoc under study: [root, title, titleParsed]
  docState,      \* "none" | "new" | "built" | "failed"
  docCalls,      \* the calls the ResponseDoc has made so far, in order
  titles,        \* the values returned by the getTitle() calls, in order
  count,         \* the count given to up.util.times()
  timesRan,      \* up.util.times() has returned
  blockCalls,    \* the arguments of the calls of the block of times(), in order
  memo,          \* the closure of a memoized function: [cached, cachedValue]
  funcCalls,     \* the argument lists the memoized function was run with
  returns,       \* the outcomes of the calls of the memoizing wrapper, in order
  microtask,     \* "none" | "queued" | "fired": the microtask of abortableMicrotask()
  aborted,       \* the flag of the closure of abortableMicrotask()
  taskRuns,      \* the number of runs of the task given to abortableMicrotask()
  operands,      \* the two arguments given to up.util.isEqual()
  equal          \* the values returned by isEqual(a, b) and isEqual(b, a), once called

layerVars == <<stack, lifecycle, parent>>
runVars == <<pc, callStack, change, response, result, log, stackBefore, peeled>>
animVars == <<animation, focusCalls, finishedCalls>>
revealVars == <<motion, scrollTop, scrollToCalls, motionState>>
docVars == <<options, responseDoc, docState, docCalls, titles>>
timesVars == <<count, timesRan, blockCalls>>
memoVars == <<memo, funcCalls, returns>>
microtaskVars == <<microtask, aborted, taskRuns>>
equalVars == <<operands, equal>>
utilVars == <<timesVars, memoVars, microtaskVars, equalVars>>
vars == <<stack, lifecycle, parent, pc, callStack, change, response, result,
          log, stackBefore, peeled, animation, focusCalls, finishedCalls,
          motion, scrollTop, scrollToCalls, motionState,
          options, responseDoc, docState, docCalls, titles,
          count, timesRan, blockCalls, memo, funcCalls, returns,
          microtask, aborted, taskRuns, operands, equal>>

-----------------------------------------------------------------------------
(* Layer and LayerStack *)

InStack == {stack[i] : i \in 1..Len(stack)}

\* Layer#isOpen(): the layer is in the stack and has not begun closing.
isOpen(l) == l \in InStack /\ lifecycle[l] \in {"opening", "open"}

\* Layer#isClosed()
isClosed(l) == ~isOpen(l)

RECURSIVE ancestors(_)
ancestors(l) == IF parent[l] = None THEN {} ELSE {parent[l]} \cup ancestors(parent[l])

\* Layer#descendants: the layers of the stack opened on l, directly or not.
descendants(l) == {d \in InStack : l \in ancestors(d)}

\* Layer#children
children(l) == {d \in InStack : parent[d] = l}

\* The lifecycle flags after the layers of ls have begun closing.
beginClosing(ls) ==
  [l \in Layers |-> IF l \in ls /\ isOpen(l) THEN "closing" ELSE lifecycle[l]]

\* Layer#peel(): begin closing every live descendant of l; not waited on.
peel(l) == beginClosing(descendants(l))

\* Closing a layer (accept or dismiss): peels it and begins closing the layer.
close(l) == beginClosing(descendants(l) \cup {l})

\* LayerStack#push()
push(l) == Append(stack, l)

\* LayerStack#remove()
remove(l) == SelectSeq(stack, LAMBDA x : x /= l)

-----------------------------------------------------------------------------
(* up.Change.OpenLayer *)

\* ResponseDoc#select(): the first element matching the selector, if any.
select(doc, selector) == IF selector \in doc THEN selector ELSE NoElement

NoResult == [kind |-> "none", layer |-> None, fragments |-> <<>>]

\* up.error.aborted() and up.Change#notApplicable()
error(kind) == [kind |-> kind, layer |-> None, fragments |-> <<>>]

\* new up.RenderResult({ layer, fragments })
RenderResult(layer, fragments) ==
  [kind |-> "RenderResult", layer |-> layer, fragments |-> fragments]

\* execute() with the push moved before the peel.
ExecuteOrderPushFirst ==
  << "select", "emitOpenEvent", "push", "peel", "attach", "hello",
     "handleLayerChangeRequests", "startOpenAnimation", "emitOpenedEvent",
     "abortWhenLayerClosed", "return" >>

\* execute() with the compilation moved before the content is attached.
ExecuteOrderCompileFirst ==
  << "select", "emitOpenEvent", "peel", "push", "hello", "attach",
     "handleLayerChangeRequests", "startOpenAnimation", "emitOpenedEvent",
     "abortWhenLayerClosed", "return" >>

\* The statements of OpenLayer#execute(), in program order.
ExecuteOrder ==
  << "select", "emitOpenEvent", "peel", "push", "attach", "hello",
     "handleLayerChangeRequests", "startOpenAnimation", "emitOpenedEvent",
     "abortWhenLayerClosed", "return" >>

stepAfter(step) ==
  LET i == CHOOSE j \in 1..Len(ExecuteOrder) : ExecuteOrder[j] = step
  IN  ExecuteOrder[i + 1]

\* Change c is executing and its next statement is `step`.  Only the innermost
\* call on the call stack runs.
Running(c, step) ==
  /\ callStack /= <<>>
  /\ callStack[Len(callStack)] = c
  /\ pc[c] = step

\* The log of c after the calls of the sequence `calls`.
logged(c, calls) == [log EXCEPT ![c] = @ \o calls]

called(c, call) == \E i \in 1..Len(log[c]) : log[c][i] = call

\* execute() goes on with the statement after `step`.
Proceed(c, step) ==
  /\ pc' = [pc EXCEPT ![c] = stepAfter(step)]
  /\ UNCHANGED <<callStack, result, stackBefore, peeled>>

\* execute() leaves with `r`: a thrown error or the returned RenderResult.
Leave(c, r) ==
  /\ pc' = [pc EXCEPT ![c] = "done"]
  /\ result' = [result EXCEPT ![c] = r]
  /\ callStack' = SubSeq(callStack, 1, Len(callStack) - 1)
  /\ stackBefore' = [stackBefore EXCEPT ![c] = <<>>]
  /\ peeled' = [peeled EXCEPT ![c] = {}]

\* Change c has not been started and is the next to start: the changes are
\* numbered in the order in which they are started.
IsNextChange(c) ==
  /\ pc[c] = "idle"
  /\ \A c0 \in Changes : c0 < c => pc[c0] /= "idle"

\* options.mode and options.context of a change.
Modes == {"modal", "popup"}

Contexts == {"{}", "{lesson}"}

NoOption == "undefined"

\* No preflight properties have been computed.
NoProps ==
  [layer |-> None, mode |-> NoOption, context |-> NoOption, target |-> NoOption]

\* up.layer.build(options): a new layer object with the mode and the context
\* of the options, which is in no stack.
build(props) ==
  [mode |-> props.mode, context |-> props.context, opening |-> props.opening]

\* u.merge(@options, opening: true)
merge(props, opening) ==
  [mode |-> props.mode, context |-> props.context, opening |-> opening]

\* preflightProps() taking the layer from the top of the stack.
preflightPropsOfCurrentLayer(props) ==
  [layer |-> stack[Len(stack)],
   mode |-> props.mode,
   context |-> build(merge(props, TRUE)).context,
   target |-> props.target]

\* return { layer: @baseLayer, mode: @mode, context: @buildLayer().context,
\*          target: @target }
preflightProps(props) ==
  [layer |-> props.baseLayer,
   mode |-> props.mode,
   context |-> build(merge(props, TRUE)).context,
   target |-> props.target]

\* The caller computes preflightProps() and sends the request for change c.
Preflight(c) ==
  /\ callStack = <<>>
  /\ IsNextChange(c)
  /\ \E b \in Layers, t \in Targets, m \in Modes, x \in Contexts :
       /\ isOpen(b)
       /\ change' = [change EXCEPT ![c] =
                       LET props == [target |-> t, baseLayer |-> b, mode |-> m,
                                       context |-> x, content |-> NoElement,
                                       preflight |-> NoProps]
                       IN  [props EXCEPT !.preflight = preflightProps(props)]]
  /\ pc' = [pc EXCEPT ![c] = "requested"]
  /\ UNCHANGED <<callStack, response, result, log, stackBefore, peeled,
                 layerVars, animVars, revealVars, docVars, utilVars>>

\* The response arriving in the middle of a running execute().
RespondMidRun(c) ==
  /\ pc[c] = "requested"
  /\ pc' = [pc EXCEPT ![c] = "select"]
  /\ callStack' = Append(callStack, c)
  /\ stackBefore' = [stackBefore EXCEPT ![c] = stack]
  /\ UNCHANGED <<change, response, result, log, peeled, layerVars, animVars, revealVars, docVars, utilVars>>

\* The response for change c arrives in a new turn and execute() is entered.
Respond(c) ==
  /\ callStack = <<>>
  /\ pc[c] = "requested"
  /\ pc' = [pc EXCEPT ![c] = "select"]
  /\ callStack' = <<c>>
  /\ stackBefore' = [stackBefore EXCEPT ![c] = stack]
  /\ UNCHANGED <<change, response, result, log, peeled, layerVars, animVars, revealVars, docVars, utilVars>>

\* A listener or compiler run by statement `step` of change c opens another
\* layer from local content: execute() of that change is entered at once, on
\* top of the call stack, and c goes on after it has left.
ListenerOpens(c, step) ==
  \E c2 \in Changes, b \in Layers, t \in Targets, m \in Modes, x \in Contexts :
    /\ IsNextChange(c2)
    /\ isOpen(b)
    /\ pc' = [pc EXCEPT ![c] = stepAfter(step), ![c2] = "select"]
    /\ callStack' = Append(callStack, c2)
    /\ change' = [change EXCEPT ![c2] =
                    [target |-> t, baseLayer |-> b, mode |-> m, context |-> x,
                     content |-> NoElement, preflight |-> NoProps]]
    /\ stackBefore' = [stackBefore EXCEPT ![c2] = stack]
    /\ UNCHANGED <<result, peeled, response>>

\* OpenLayer#buildLayer(): the lifecycle flags and parents once change c has
\* built its layer, which is opening and not yet in the stack.
buildLayer(c) ==
  [flags |-> [lifecycle EXCEPT ![c] = "opening"],
   parents |-> [parent EXCEPT ![c] = change[c].baseLayer]]

\* The condition with the check of the base layer left out.
unusableIgnoringBaseLayer(content, baseLayer) == content = NoElement

\* !@content || @baseLayer.isClosed()
unusable(content, baseLayer) == content = NoElement \/ isClosed(baseLayer)

\* @content = ... ; throw @notApplicable() if !@content || @baseLayer.isClosed();
\* @layer = @buildLayer()
\* The response document is an input of execute(), read by responseDoc.select().
Select(c) ==
  /\ Running(c, "select")
  /\ \E doc \in ResponseDocs :
       LET content == IF change[c].target = ":none"
                      THEN "up-none"
                      ELSE select(doc, change[c].target)
       IN  /\ response' = [response EXCEPT
                             ![c].doc = IF change[c].target = ":none" THEN @ ELSE doc]
           /\ change' = [change EXCEPT ![c].content = content]
           /\ IF unusable(content, change[c].baseLayer)
              THEN /\ log' = logged(c, <<"select">>)
                   /\ Leave(c, error("NotApplicable"))
                   /\ UNCHANGED <<lifecycle, parent>>
              ELSE /\ log' = logged(c, <<"select", "getTitle", "buildLayer">>)
                   /\ lifecycle' = buildLayer(c).flags
                   /\ parent' = buildLayer(c).parents
                   /\ Proceed(c, "select")
  /\ UNCHANGED <<stack, animVars, revealVars, docVars, utilVars>>

\* The check of defaultPrevented left out: execute() goes on.
OpenEventPreventedIgnored(c) == Proceed(c, "emitOpenEvent")

\* throw up.error.aborted('Open event was prevented')
OpenEventPrevented(c) == Leave(c, error("Aborted"))

\* if @emitOpenEvent().defaultPrevented ...
\* The listeners of up:layer:open run synchronously inside emitOpenEvent().
EmitOpenEvent(c) ==
  /\ Running(c, "emitOpenEvent")
  /\ \/ \* no listener interferes
        /\ log' = logged(c, <<"emitOpenEvent">>)
        /\ Proceed(c, "emitOpenEvent")
        /\ UNCHANGED <<change, response, layerVars>>
     \/ \* a listener prevents the event
        /\ log' = logged(c, <<"emitOpenEvent", "preventDefault">>)
        /\ OpenEventPrevented(c)
        /\ UNCHANGED <<change, response, layerVars>>
     \/ \* a listener closes the base layer and lets the event pass
        /\ change[c].baseLayer /= Root
        /\ isOpen(change[c].baseLayer)
        /\ lifecycle' = close(change[c].baseLayer)
        /\ log' = logged(c, <<"emitOpenEvent", "baseLayer.dismiss">>)
        /\ Proceed(c, "emitOpenEvent")
        /\ UNCHANGED <<change, response, stack, parent>>
     \/ \* a listener opens another layer
        /\ log' = logged(c, <<"emitOpenEvent", "up.layer.open">>)
        /\ ListenerOpens(c, "emitOpenEvent")
        /\ UNCHANGED layerVars
  /\ UNCHANGED <<animVars, revealVars, docVars, utilVars>>

\* The peel left out.
PeelSkipped(c) ==
  /\ Running(c, "peel")
  /\ log' = logged(c, <<"peel">>)
  /\ pc' = [pc EXCEPT ![c] = stepAfter("peel")]
  /\ UNCHANGED <<callStack, result, stackBefore, peeled>>
  /\ UNCHANGED <<layerVars, change, response, animVars, revealVars, docVars, utilVars>>

\* @baseLayer.peel()
Peel(c) ==
  /\ Running(c, "peel")
  /\ lifecycle' = peel(change[c].baseLayer)
  /\ peeled' = [peeled EXCEPT ![c] = {d \in descendants(change[c].baseLayer) : isOpen(d)}]
  /\ log' = logged(c, <<"peel">>)
  /\ pc' = [pc EXCEPT ![c] = stepAfter("peel")]
  /\ UNCHANGED <<callStack, result, stackBefore>>
  /\ UNCHANGED <<stack, parent, change, response, animVars, revealVars, docVars, utilVars>>

\* up.layer.stack.push(@layer)
Push(c) ==
  /\ Running(c, "push")
  /\ stack' = push(c)
  /\ log' = logged(c, <<"push">>)
  /\ Proceed(c, "push")
  /\ UNCHANGED <<lifecycle, parent, change, response, animVars, revealVars, docVars, utilVars>>

\* The calls that attach the content to the new layer, none of which runs
\* listeners: @layer.createElements(@content); @layer.setupHandlers();
\* @handleHistory(); @setSource(...); responseDoc.finalizeElement(@content)
AttachCalls ==
  <<"createElements", "setupHandlers", "handleHistory", "setSource", "finalizeElement">>

Attach(c) ==
  /\ Running(c, "attach")
  /\ log' = logged(c, AttachCalls)
  /\ Proceed(c, "attach")
  /\ UNCHANGED <<change, response, layerVars, animVars, revealVars, docVars, utilVars>>

\* up.hello(@layer.element, { @layer, @origin }): compilers run synchronously.
Hello(c) ==
  /\ Running(c, "hello")
  /\ \/ \* no compiler interferes
        /\ log' = logged(c, <<"hello">>)
        /\ Proceed(c, "hello")
        /\ UNCHANGED <<change, response, layerVars>>
     \/ \* a compiler closes the new layer
        /\ isOpen(c)
        /\ lifecycle' = close(c)
        /\ log' = logged(c, <<"hello", "layer.dismiss">>)
        /\ Proceed(c, "hello")
        /\ UNCHANGED <<change, response, stack, parent>>
     \/ \* a compiler opens another layer
        /\ log' = logged(c, <<"hello", "up.layer.open">>)
        /\ ListenerOpens(c, "hello")
        /\ UNCHANGED layerVars
  /\ UNCHANGED <<animVars, revealVars, docVars, utilVars>>

\* handleLayerChangeRequests() closing the layer without throwing.
HandleLayerChangeRequestsSilently(c) ==
  /\ Running(c, "handleLayerChangeRequests")
  /\ log' = logged(c, <<"handleLayerChangeRequests">>)
  /\ \E signal \in BOOLEAN :
       /\ response' = [response EXCEPT ![c].closeSignal = signal]
       /\ lifecycle' = IF signal THEN close(c) ELSE lifecycle
  /\ Proceed(c, "handleLayerChangeRequests")
  /\ UNCHANGED <<stack, parent, change, animVars, revealVars, docVars, utilVars>>

\* @handleLayerChangeRequests(): a close signal of the response (read here)
\* closes the new layer; the call throws up.error.aborted if the layer is
\* closed afterwards.
HandleLayerChangeRequests(c) ==
  /\ Running(c, "handleLayerChangeRequests")
  /\ log' = logged(c, <<"handleLayerChangeRequests">>)
  /\ \E signal \in BOOLEAN :
       /\ response' = [response EXCEPT ![c].closeSignal = signal]
       /\ lifecycle' = IF signal THEN close(c) ELSE lifecycle
       /\ IF signal \/ isClosed(c)
          THEN Leave(c, error("Aborted"))
          ELSE Proceed(c, "handleLayerChangeRequests")
  /\ UNCHANGED <<stack, parent, change, animVars, revealVars, docVars, utilVars>>

\* execute() waiting for the animation: the callback runs before execute() goes on.
StartOpenAnimationAwaited(c) ==
  /\ Running(c, "startOpenAnimation")
  /\ animation' = [animation EXCEPT ![c] = "fulfilled"]
  /\ focusCalls' = [focusCalls EXCEPT ![c] = IF isOpen(c) THEN @ + 1 ELSE @]
  /\ finishedCalls' = [finishedCalls EXCEPT ![c] = @ + 1]
  /\ log' = logged(c, <<"handleScroll", "startOpenAnimation">>)
  /\ Proceed(c, "startOpenAnimation")
  /\ UNCHANGED <<change, response, layerVars, revealVars, docVars, utilVars>>

\* @handleScroll(); @layer.startOpenAnimation().then => ...
\* Scrolling is started and not waited for.  The callback is registered on the
\* promise of the animation and runs in a later turn.
StartOpenAnimation(c) ==
  /\ Running(c, "startOpenAnimation")
  /\ animation' = [animation EXCEPT ![c] = "running"]
  /\ log' = logged(c, <<"handleScroll", "startOpenAnimation">>)
  /\ Proceed(c, "startOpenAnimation")
  /\ UNCHANGED <<focusCalls, finishedCalls, change, response, layerVars, revealVars, docVars, utilVars>>

\* @layer.opening = false; @emitOpenedEvent(): listeners run synchronously.
EmitOpenedEvent(c) ==
  /\ Running(c, "emitOpenedEvent")
  /\ \/ \* no listener interferes
        /\ lifecycle' = [lifecycle EXCEPT ![c] = IF @ = "opening" THEN "open" ELSE @]
        /\ log' = logged(c, <<"emitOpenedEvent">>)
        /\ Proceed(c, "emitOpenedEvent")
        /\ UNCHANGED <<change, response>>
     \/ \* a listener closes the new layer
        /\ isOpen(c)
        /\ lifecycle' = close(c)
        /\ log' = logged(c, <<"emitOpenedEvent", "layer.dismiss">>)
        /\ Proceed(c, "emitOpenedEvent")
        /\ UNCHANGED <<change, response>>
     \/ \* a listener opens another layer
        /\ lifecycle' = [lifecycle EXCEPT ![c] = IF @ = "opening" THEN "open" ELSE @]
        /\ log' = logged(c, <<"emitOpenedEvent", "up.layer.open">>)
        /\ ListenerOpens(c, "emitOpenedEvent")
  /\ UNCHANGED <<stack, parent, animVars, revealVars, docVars, utilVars>>

\* The final re-check left out.
AbortWhenLayerClosedSkipped(c) ==
  /\ Running(c, "abortWhenLayerClosed")
  /\ log' = logged(c, <<"abortWhenLayerClosed">>)
  /\ Proceed(c, "abortWhenLayerClosed")
  /\ UNCHANGED <<change, response, layerVars, animVars, revealVars, docVars, utilVars>>

\* @abortWhenLayerClosed()
AbortWhenLayerClosed(c) ==
  /\ Running(c, "abortWhenLayerClosed")
  /\ log' = logged(c, <<"abortWhenLayerClosed">>)
  /\ IF isClosed(c)
     THEN Leave(c, error("Aborted"))
     ELSE Proceed(c, "abortWhenLayerClosed")
  /\ UNCHANGED <<change, response, layerVars, animVars, revealVars, docVars, utilVars>>

\* return new up.RenderResult(layer: @layer, fragments: [@content])
Return(c) ==
  /\ Running(c, "return")
  /\ log' = logged(c, <<"return">>)
  /\ Leave(c, RenderResult(c, <<change[c].content>>))
  /\ UNCHANGED <<change, response, layerVars, animVars, revealVars, docVars, utilVars>>

\* The callback placing the focus without asking @layer.isOpen().
AnimationSettlesFocusAlways(c) ==
  /\ callStack = <<>>
  /\ animation[c] = "running"
  /\ animation' = [animation EXCEPT ![c] = "fulfilled"]
  /\ focusCalls' = [focusCalls EXCEPT ![c] = @ + 1]
  /\ finishedCalls' = [finishedCalls EXCEPT ![c] = @ + 1]
  /\ UNCHANGED <<runVars, layerVars, revealVars, docVars, utilVars>>

\* The promise of startOpenAnimation() settles and, in a turn of its own, the
\* callback given to then() runs: handleFocus() if the layer is open, then
\* onFinished().  A rejected promise skips the callback; an exception thrown
\* by handleFocus() leaves it.
AnimationSettles(c) ==
  /\ callStack = <<>>
  /\ animation[c] = "running"
  /\ \/ \* fulfilled, and handleFocus() (if called) returns
        /\ animation' = [animation EXCEPT ![c] = "fulfilled"]
        /\ focusCalls' = [focusCalls EXCEPT ![c] = IF isOpen(c) THEN @ + 1 ELSE @]
        /\ finishedCalls' = [finishedCalls EXCEPT ![c] = @ + 1]
     \/ \* fulfilled, and handleFocus() throws
        /\ isOpen(c)
        /\ animation' = [animation EXCEPT ![c] = "fulfilled"]
        /\ focusCalls' = [focusCalls EXCEPT ![c] = @ + 1]
        /\ UNCHANGED finishedCalls
     \/ \* rejected
        /\ animation' = [animation EXCEPT ![c] = "rejected"]
        /\ UNCHANGED <<focusCalls, finishedCalls>>
  /\ UNCHANGED <<runVars, layerVars, revealVars, docVars, utilVars>>

\* The user accepts or dismisses an overlay, in a turn of its own.
CloseLayer(l) ==
  /\ callStack = <<>>
  /\ l /= Root
  /\ isOpen(l)
  /\ lifecycle' = close(l)
  /\ UNCHANGED <<stack, parent, runVars, animVars, revealVars, docVars, utilVars>>

\* The closing of a layer finishes: the layer leaves the stack.
FinishClosing(l) ==
  /\ callStack = <<>>
  /\ lifecycle[l] = "closing"
  /\ lifecycle' = [lifecycle EXCEPT ![l] = "closed"]
  /\ stack' = remove(l)
  /\ UNCHANGED <<parent, runVars, animVars, revealVars, docVars, utilVars>>

\* The page before any change: only the root layer.
LayersInit ==
  /\ stack = <<Root>>
  /\ lifecycle = [l \in Layers |-> IF l = Root THEN "open" ELSE "unbuilt"]
  /\ parent = [l \in Layers |-> None]
  /\ pc = [c \in Changes |-> "idle"]
  /\ callStack = <<>>
  /\ change = [c \in Changes |->
                 [target |-> ":none", baseLayer |-> None, mode |-> NoOption,
                  context |-> NoOption, content |-> NoElement,
                  preflight |-> NoProps]]
  /\ response = [c \in Changes |-> [doc |-> {}, closeSignal |-> FALSE]]
  /\ result = [c \in Changes |-> NoResult]
  /\ log = [c \in Changes |-> <<>>]
  /\ stackBefore = [c \in Changes |-> <<>>]
  /\ peeled = [c \in Changes |-> {}]
  /\ animation = [c \in Changes |-> "none"]
  /\ focusCalls = [c \in Changes |-> 0]
  /\ finishedCalls = [c \in Changes |-> 0]

\* No RevealMotion is under study in the layer specification.
NoMotion == [built |-> FALSE]

MotionInit ==
  /\ motion = NoMotion
  /\ scrollTop = 0
  /\ scrollToCalls = <<>>
  /\ motionState = "new"

\* No ResponseDoc is under study in the layer and reveal specifications.
NoDoc == [built |-> FALSE]

DocInit ==
  /\ options = NoDoc
  /\ responseDoc = NoDoc
  /\ docState = "none"
  /\ docCalls = <<>>
  /\ titles = <<>>

\* No function of up.util is under study in the other specifications.
TimesIdle ==
  /\ count = 0
  /\ timesRan = FALSE
  /\ blockCalls = <<>>

MemoizeIdle ==
  /\ memo = [cached |-> FALSE, cachedValue |-> "undefined"]
  /\ funcCalls = <<>>
  /\ returns = <<>>

MicrotaskIdle ==
  /\ microtask = "none"
  /\ aborted = FALSE
  /\ taskRuns = 0

EqualIdle ==
  /\ operands = <<>>
  /\ equal = <<>>

UtilInit == TimesIdle /\ MemoizeIdle /\ MicrotaskIdle /\ EqualIdle

Init ==
  /\ LayersInit
  /\ MotionInit
  /\ DocInit
  /\ UtilInit

Next ==
  \/ \E c \in Changes : Preflight(c)
  \/ \E c \in Changes : Respond(c)
  \/ \E c \in Changes : Select(c)
  \/ \E c \in Changes : EmitOpenEvent(c)
  \/ \E c \in Changes : Peel(c)
  \/ \E c \in Changes : Push(c)
  \/ \E c \in Changes : Attach(c)
  \/ \E c \in Changes : Hello(c)
  \/ \E c \in Changes : HandleLayerChangeRequests(c)
  \/ \E c \in Changes : StartOpenAnimation(c)
  \/ \E c \in Changes : EmitOpenedEvent(c)
  \/ \E c \in Changes : AbortWhenLayerClosed(c)
  \/ \E c \in Changes : Return(c)
  \/ \E c \in Changes : AnimationSettles(c)
  \/ \E l \in Layers : CloseLayer(l)
  \/ \E l \in Layers : FinishClosing(l)

Spec == Init /\ [][Next]_vars

-----------------------------------------------------------------------------
(* Properties of the open protocol *)

Executing(c) == pc[c] \notin {"idle", "requested", "done"}

prevented(c) == called(c, "preventDefault")

\* C1: if a listener prevents up:layer:open, execute() fails as Aborted, it
\* has neither peeled the base layer nor pushed the new layer, and the stack
\* when it fails is the stack it was called with.
PreventedOpenLeavesStack ==
  /\ [](\A c \in Changes : prevented(c) =>
          /\ result[c].kind = "Aborted"
          /\ ~called(c, "peel")
          /\ ~called(c, "push")
          /\ c \notin InStack)
  /\ [][\A c \in Changes : (~prevented(c) /\ prevented(c)') =>
          (stack' = stackBefore[c] /\ lifecycle' = lifecycle)]_vars

\* C1 witness: an open was prevented on a base layer that has a live child,
\* which a peel would have closed.
PreventedOpenWitness ==
  \E c \in Changes :
    /\ prevented(c)
    /\ \E d \in children(change[c].baseLayer) : isOpen(d)

\* C2 as claimed: execute() fails as NotApplicable whenever the target
\* fragment is absent from the response document or the base layer is closed.
AbsentTargetIsNotApplicable ==
  [][\A c \in Changes :
       ( /\ pc[c] = "select"
         /\ pc'[c] /= "select"
         /\ \/ select(response'[c].doc, change[c].target) = NoElement
            \/ isClosed(change[c].baseLayer) )
       => result'[c].kind = "NotApplicable"]_vars

\* C2 amended: execute() fails as NotApplicable whenever the target is not
\* ":none" and is absent from the response document, or the base layer is
\* closed when execute() runs; then no layer is built, no open event is
\* emitted and the stack is not changed.
SelectedTargetAbsentIsNotApplicable ==
  /\ [][\A c \in Changes :
          ( /\ pc[c] = "select"
            /\ pc'[c] /= "select"
            /\ \/ /\ change[c].target /= ":none"
                  /\ select(response'[c].doc, change[c].target) = NoElement
               \/ isClosed(change[c].baseLayer) )
          => (result'[c].kind = "NotApplicable" /\ layerVars' = layerVars)]_vars
  /\ [](\A c \in Changes : result[c].kind = "NotApplicable" =>
          /\ lifecycle[c] = "unbuilt"
          /\ ~called(c, "buildLayer")
          /\ ~called(c, "emitOpenEvent")
          /\ ~called(c, "push")
          /\ c \notin InStack)

\* C2 witness: the target is in the response, but the base layer (an overlay)
\* was closed while the request was in flight.
BaseClosedInFlightWitness ==
  \E c \in Changes :
    /\ result[c].kind = "NotApplicable"
    /\ change[c].target \in response[c].doc
    /\ change[c].baseLayer /= Root

\* C3: every layer of the stack has at most one live child.
AtMostOneLiveChild ==
  \A l \in InStack : Cardinality({d \in children(l) : isOpen(d)}) <= 1

\* C3 witness: two opens on the same base layer overlapped; the layer of the
\* one that was started later was pushed first and is closing, the other is live.
RacingOpensWitness ==
  \E c1, c2 \in Changes :
    /\ c1 < c2
    /\ change[c1].baseLayer = change[c2].baseLayer
    /\ isOpen(c1)
    /\ c2 \in InStack
    /\ lifecycle[c2] = "closing"

\* C4: when a layer is pushed, peel has been called and every child of its
\* base layer has begun closing; and for the rest of the run the layers that
\* peel closed are still closing: the push did not wait for them.
PeelBeginsBeforePush ==
  /\ [][\A c \in Changes : (c \notin InStack /\ c \in InStack') =>
          /\ called(c, "peel")
          /\ \A d \in children(change[c].baseLayer) : ~isOpen(d)]_vars
  /\ [](\A c \in Changes : (Executing(c) /\ called(c, "push")) =>
          \A d \in peeled[c] : d \in InStack /\ lifecycle[d] = "closing")

\* C4 witness: a layer has just been pushed while the child that its peel
\* closed is still closing.
PushedWhileClosingWitness ==
  \E c \in Changes :
    /\ pc[c] = "attach"
    /\ c \in InStack
    /\ \E d \in peeled[c] : parent[d] = change[c].baseLayer /\ lifecycle[d] = "closing"

\* A listener of up:layer:opened closed the new layer.
dismissedOnOpened(c) ==
  \E i \in 1..(Len(log[c]) - 1) :
    log[c][i] = "emitOpenedEvent" /\ log[c][i + 1] = "layer.dismiss"

\* C5: if a listener of up:layer:opened closes the new layer, execute() has
\* made every call up to the opened event, returns no RenderResult and ends
\* as a failure.
ClosedOnOpenedFails ==
  \A c \in Changes : dismissedOnOpened(c) =>
    /\ \A call \in {"select", "buildLayer", "emitOpenEvent", "peel", "push",
                    "createElements", "setupHandlers", "handleHistory", "setSource",
                    "finalizeElement", "hello", "handleLayerChangeRequests",
                    "handleScroll", "startOpenAnimation", "emitOpenedEvent"} :
         called(c, call)
    /\ ~called(c, "return")
    /\ result[c].kind /= "RenderResult"
    /\ pc[c] \in {"abortWhenLayerClosed", "done"}
    /\ pc[c] = "done" => result[c].kind = "Aborted"

\* C5 witness: execute() has failed after such a listener.
ClosedOnOpenedWitness ==
  \E c \in Changes : dismissedOnOpened(c) /\ result[c].kind = "Aborted"

\* C6: if a close signal of the response closes the new layer at the re-check
\* after compilation, execute() fails as Aborted without scrolling, animating,
\* emitting the opened event or returning a result; the push, the attachment,
\* the history change and the compilation have happened and the failing
\* statement leaves the layer in the stack.
CloseSignalAborts ==
  /\ [](\A c \in Changes : response[c].closeSignal =>
          /\ result[c].kind = "Aborted"
          /\ \A call \in {"handleScroll", "startOpenAnimation", "emitOpenedEvent",
                          "abortWhenLayerClosed", "return"} : ~called(c, call)
          /\ animation[c] = "none"
          /\ \A call \in {"push", "createElements", "handleHistory", "hello"} :
               called(c, call)
          /\ lifecycle[c] \in {"closing", "closed"})
  /\ [][\A c \in Changes : (~response[c].closeSignal /\ response'[c].closeSignal) =>
          (stack' = stack /\ c \in InStack)]_vars

\* C6 witness: execute() was aborted by a close signal and the layer it
\* pushed is in the stack.
CloseSignalWitness ==
  \E c \in Changes :
    response[c].closeSignal /\ result[c].kind = "Aborted" /\ c \in InStack

\* C7: a RenderResult holds the layer that execute() pushed and exactly the
\* selected content element, and the animation callback (focus placement and
\* onFinished) runs only after execute() has left.
ResultBeforeAnimationEnds ==
  \A c \in Changes :
    /\ result[c].kind = "RenderResult" =>
         /\ result[c].layer = c
         /\ called(c, "push")
         /\ change[c].content =
              (IF change[c].target = ":none" THEN "up-none" ELSE change[c].target)
         /\ result[c].fragments = <<change[c].content>>
    /\ (animation[c] \in {"fulfilled", "rejected"}
          \/ focusCalls[c] > 0 \/ finishedCalls[c] > 0) => pc[c] = "done"

\* C7 witness: execute() has returned its result while the animation runs.
ResultWhileAnimatingWitness ==
  \E c \in Changes :
    /\ result[c].kind = "RenderResult"
    /\ animation[c] = "running"
    /\ focusCalls[c] = 0
    /\ finishedCalls[c] = 0

\* C8 as claimed: once the promise of the open animation has settled,
\* onFinished() has been called exactly once.
OnFinishedOnceSettled ==
  \A c \in Changes :
    animation[c] \in {"fulfilled", "rejected"} => finishedCalls[c] = 1

\* C9: handleFocus() is called only by the animation callback of a layer
\* that is open when its animation completes.
FocusOnlyIfOpen ==
  [][\A c \in Changes : focusCalls'[c] /= focusCalls[c] =>
       (isOpen(c) /\ animation[c] = "running" /\ focusCalls'[c] = focusCalls[c] + 1)]_vars

\* C9 witness: the layer was closed by a listener of up:layer:opened, its
\* animation completed, the focus was not placed and onFinished() was called.
NoFocusOnClosedWitness ==
  \E c \in Changes :
    /\ dismissedOnOpened(c)
    /\ animation[c] = "fulfilled"
    /\ focusCalls[c] = 0
    /\ finishedCalls[c] = 1

-----------------------------------------------------------------------------
(* up.RevealMotion *)

\* Pixel coordinates and sizes range over -1..MaxPx and 0..MaxPx.
MaxPx == 2

\* The number of visible obstructions (fixed-top and fixed-bottom together).
MaxObstructions == 1

\* up.Rect: { top, height } (left and width play no part in revealing).
Rect(top, height) == [top |-> top, height |-> height]

\* up.Rect#bottom
bottom(rect) == rect.top + rect.height

Min(a, b) == IF a < b THEN a ELSE b

SeqsUpTo(S, n) == UNION {[1..k -> S] : k \in 0..n}

\* The values of the snap option: a number of pixels, or no number (false).
NoSnap == [isNumber |-> FALSE, value |-> 0]
Snaps == {NoSnap} \cup {[isNumber |-> TRUE, value |-> v] : v \in 0..MaxPx}

\* Fixed-top obstructions reach from the top of the screen down to their bottom.
TopObstructionRects == {Rect(0, h) : h \in 0..MaxPx}

\* Fixed-bottom obstructions start at their top.
BottomObstructionRects == {Rect(t, 1) : t \in 0..MaxPx}

\* The viewports: the root viewport, whose rectangle is the screen, or a
\* scrolling element with a bounding rectangle of its own.
Viewports ==
  {[isRoot |-> TRUE, rootHeight |-> h, rect |-> Rect(0, h)] : h \in 0..MaxPx}
    \cup {[isRoot |-> FALSE, rootHeight |-> MaxPx, rect |-> Rect(1, h)] : h \in 0..MaxPx}

\* A RevealMotion as its constructor leaves it, with the rectangles that
\* start() will measure.
Motions ==
  {m \in [ viewport : Viewports,
           element : {Rect(t, h) : t \in -1..MaxPx, h \in 0..MaxPx},
           snap : Snaps,
           padding : 0..1,
           top : BOOLEAN,
           max : 0..1,
           topObstructions : SeqsUpTo(TopObstructionRects, MaxObstructions),
           bottomObstructions : SeqsUpTo(BottomObstructionRects, MaxObstructions) ] :
     Len(m.topObstructions) + Len(m.bottomObstructions) <= MaxObstructions}

\* RevealMotion#_getViewportRect()
getViewportRect(m) ==
  IF m.viewport.isRoot THEN Rect(0, m.viewport.rootHeight) ELSE m.viewport.rect

\* elementRect.height = Math.min(elementRect.height, maxPixels) if @_max
capped(m, rect) ==
  IF m.max /= 0 THEN Rect(rect.top, Min(rect.height, m.max)) ELSE rect

\* _addPadding() with the padding added to the height once only.
addPaddingOnce(m, rect) == Rect(rect.top - m.padding, rect.height + m.padding)

\* RevealMotion#_addPadding()
addPadding(m, rect) == Rect(rect.top - m.padding, rect.height + 2 * m.padding)

\* The loop over the fixed-top obstructions with the viewport top moved up
\* instead of down.
RECURSIVE substractTopUpwards(_, _, _)
substractTopUpwards(rect, obstructions, i) ==
  IF i > Len(obstructions) THEN rect
  ELSE LET diff == bottom(obstructions[i]) - rect.top
       IN  substractTopUpwards(IF diff > 0 THEN Rect(rect.top - diff, rect.height - diff) ELSE rect,
                               obstructions, i + 1)

\* The loop over the fixed-top obstructions with every intruding obstruction
\* taking its own height off the viewport.
RECURSIVE substractTopStacking(_, _, _)
substractTopStacking(rect, obstructions, i) ==
  IF i > Len(obstructions) THEN rect
  ELSE LET diff == bottom(obstructions[i]) - rect.top
           height == obstructions[i].height
       IN  substractTopStacking(IF diff > 0 THEN Rect(rect.top + height, rect.height - height) ELSE rect,
                                obstructions, i + 1)

\* The loop over the fixed-top obstructions, from the i-th on.
RECURSIVE substractTop(_, _, _)
substractTop(rect, obstructions, i) ==
  IF i > Len(obstructions) THEN rect
  ELSE LET diff == bottom(obstructions[i]) - rect.top
       IN  substractTop(IF diff > 0 THEN Rect(rect.top + diff, rect.height - diff) ELSE rect,
                        obstructions, i + 1)

\* The loop over the fixed-bottom obstructions, from the i-th on.
RECURSIVE substractBottom(_, _, _)
substractBottom(rect, obstructions, i) ==
  IF i > Len(obstructions) THEN rect
  ELSE LET diff == bottom(rect) - obstructions[i].top
       IN  substractBottom(IF diff > 0 THEN Rect(rect.top, rect.height - diff) ELSE rect,
                           obstructions, i + 1)

\* RevealMotion#_substractObstructions()
substractObstructions(m, rect) ==
  substractBottom(substractTop(rect, m.topObstructions, 1), m.bottomObstructions, 1)

\* The element rectangle start() works with: capped, then padded.
elementRect(m) == addPadding(m, capped(m, m.element))

\* The viewport rectangle start() works with: the obstructions subtracted.
viewportRect(m) == substractObstructions(m, getViewportRect(m))

\* The rules of start() with the scroll-up and scroll-down rules tried before
\* the top-align rule.
alignedScrollTopAlignLast(m, originalScrollTop) ==
  LET e == elementRect(m)
      v == viewportRect(m)
  IN  IF ~m.top /\ e.top < v.top THEN originalScrollTop - (v.top - e.top)
      ELSE IF ~m.top /\ bottom(e) > bottom(v) THEN originalScrollTop + (bottom(e) - bottom(v))
      ELSE IF m.top \/ e.height > v.height THEN originalScrollTop + (e.top - v.top)
      ELSE originalScrollTop

\* The rules of start() with the scroll-down rule measuring the deficit from
\* the viewport height instead of the viewport bottom.
alignedScrollTopFromHeight(m, originalScrollTop) ==
  LET e == elementRect(m)
      v == viewportRect(m)
  IN  IF m.top \/ e.height > v.height THEN originalScrollTop + (e.top - v.top)
      ELSE IF e.top < v.top THEN originalScrollTop - (v.top - e.top)
      ELSE IF bottom(e) > bottom(v) THEN originalScrollTop + (bottom(e) - v.height)
      ELSE originalScrollTop

\* The four rules of start() deciding the new scroll offset.
alignedScrollTop(m, originalScrollTop) ==
  LET e == elementRect(m)
      v == viewportRect(m)
  IN  IF m.top \/ e.height > v.height THEN originalScrollTop + (e.top - v.top)
      ELSE IF e.top < v.top THEN originalScrollTop - (v.top - e.top)
      ELSE IF bottom(e) > bottom(v) THEN originalScrollTop + (bottom(e) - bottom(v))
      ELSE originalScrollTop

\* The snap condition with the threshold included.
snapsInclusive(m, newScrollTop) ==
  /\ m.snap.isNumber
  /\ newScrollTop <= m.snap.value
  /\ 2 * elementRect(m).top < viewportRect(m).height

\* u.isNumber(@_snap) && newScrollTop < @_snap
\*   && elementRect.top < 0.5 * viewportRect.height
snaps(m, newScrollTop) ==
  /\ m.snap.isNumber
  /\ newScrollTop < m.snap.value
  /\ 2 * elementRect(m).top < viewportRect(m).height

\* The offset start() decides on.
newScrollTop(m, originalScrollTop) ==
  LET aligned == alignedScrollTop(m, originalScrollTop)
  IN  IF snaps(m, aligned) THEN 0 ELSE aligned

\* The failure test with a height of zero failing too.
hasNoVisibleAreaAtZero(m) == viewportRect(m).height <= 0

\* up.fail('Viewport has no visible area') if viewportRect.height < 0
hasNoVisibleArea(m) == viewportRect(m).height < 0

\* The viewport after scrollTo({ top }): a scroll offset is never negative.
scrolledTo(top) == IF top < 0 THEN 0 ELSE top

\* this._options: the options the RevealMotion was constructed with, here
\* options that give snap, padding, top and max themselves.
revealOptions(m) ==
  [snap |-> m.snap, padding |-> m.padding, max |-> m.max, top |-> m.top]

\* { ...this._options, top: newScrollTop }
scrollToOptions(m, top) ==
  [snap |-> revealOptions(m).snap,
   padding |-> revealOptions(m).padding,
   max |-> revealOptions(m).max,
   top |-> top]

\* start() comparing the offset before the snap rule with the current offset.
StartComparingBeforeSnap ==
  /\ motionState = "ready"
  /\ IF hasNoVisibleArea(motion)
     THEN /\ motionState' = "failed"
          /\ UNCHANGED <<scrollTop, scrollToCalls>>
     ELSE /\ motionState' = "done"
          /\ LET new == newScrollTop(motion, scrollTop)
             IN  IF alignedScrollTop(motion, scrollTop) /= scrollTop
                 THEN /\ scrollToCalls' = Append(scrollToCalls, scrollToOptions(motion, new))
                      /\ scrollTop' = scrolledTo(new)
                 ELSE UNCHANGED <<scrollTop, scrollToCalls>>
  /\ UNCHANGED <<motion, layerVars, runVars, animVars, docVars, utilVars>>

\* RevealMotion#start()
Start ==
  /\ motionState = "ready"
  /\ IF hasNoVisibleArea(motion)
     THEN /\ motionState' = "failed"
          /\ UNCHANGED <<scrollTop, scrollToCalls>>
     ELSE /\ motionState' = "done"
          /\ LET new == newScrollTop(motion, scrollTop)
             IN  IF new /= scrollTop
                 THEN /\ scrollToCalls' = Append(scrollToCalls, scrollToOptions(motion, new))
                      /\ scrollTop' = scrolledTo(new)
                 ELSE UNCHANGED <<scrollTop, scrollToCalls>>
  /\ UNCHANGED <<motion, layerVars, runVars, animVars, docVars, utilVars>>

\* A root viewport 800 high without obstructions, and an element at top 1000
\* of the given height, revealed with the default options.
Scenario(height) ==
  [ viewport |-> [isRoot |-> TRUE, rootHeight |-> 800, rect |-> Rect(0, 800)],
    element |-> Rect(1000, height),
    snap |-> NoSnap,
    padding |-> 0,
    top |-> FALSE,
    max |-> 0,
    topObstructions |-> <<>>,
    bottomObstructions |-> <<>> ]

\* An element that fits into the viewport, and one that exceeds it.
Scenarios == {Scenario(200), Scenario(2000)}

\* A RevealMotion has been constructed for some element, viewport and
\* options, at some scroll offset.
RevealInit ==
  /\ LayersInit
  /\ DocInit
  /\ UtilInit
  /\ \/ motion \in Motions /\ scrollTop \in 0..MaxPx
     \/ motion \in Scenarios /\ scrollTop = 0
  /\ scrollToCalls = <<>>
  /\ motionState = "ready"

RevealNext == Start

SpecReveal == RevealInit /\ [][RevealNext]_vars

\* The element, capped and padded, lies inside the viewport left by the
\* obstructions.
fullyInside(m) ==
  /\ elementRect(m).top >= viewportRect(m).top
  /\ bottom(elementRect(m)) <= bottom(viewportRect(m))

\* C10 as claimed: revealing an element that lies fully inside the
\* unobstructed viewport, without align-top, leaves the scroll offset
\* unchanged, whatever the scroll offset and the snap threshold.
FullyInsideNeverScrolls ==
  [][(motionState = "ready" /\ fullyInside(motion) /\ ~motion.top) =>
       (scrollTop' = scrollTop /\ scrollToCalls' = scrollToCalls)]_vars

\* C10 amended: such a reveal leaves the scroll offset unchanged unless the
\* snap rule applies (a numeric threshold above the current offset and the
\* element top above half the viewport height); then the offset becomes zero.
FullyInsideScrollsOnlyToSnap ==
  [][(motionState = "ready" /\ fullyInside(motion) /\ ~motion.top) =>
       /\ motionState' = "done"
       /\ IF /\ motion.snap.isNumber
             /\ scrollTop < motion.snap.value
             /\ 2 * elementRect(motion).top < viewportRect(motion).height
          THEN scrollTop' = 0
          ELSE scrollTop' = scrollTop /\ scrollToCalls' = scrollToCalls]_vars

\* C10 witness: an element fully inside the viewport was revealed at a
\* non-zero offset with a numeric snap threshold, and nothing was scrolled.
FullyInsideWitness ==
  /\ motionState = "done"
  /\ fullyInside(motion)
  /\ ~motion.top
  /\ motion.snap.isNumber
  /\ motion.topObstructions /= <<>>
  /\ scrollTop > 0
  /\ scrollToCalls = <<>>

\* The offset a step of start() decides on: the argument of its scrollTo()
\* call, or the current offset when it does not scroll.
decidedScrollTop ==
  IF scrollToCalls' = scrollToCalls THEN scrollTop
  ELSE scrollToCalls'[Len(scrollToCalls')].top

\* start() runs to its end.
Revealing == motionState = "ready" /\ motionState' = "done"

\* The same configuration with one more visible fixed-top obstruction.
withTopObstruction(m, rect) ==
  [m EXCEPT !.topObstructions = Append(@, rect)]

\* C11 as claimed: adding one more visible top obstruction never makes the
\* offset computed by start() smaller than the offset computed for the same
\* configuration without it.
TopObstructionNeverDecreases ==
  [][Revealing =>
       \A rect \in TopObstructionRects :
         ~hasNoVisibleArea(withTopObstruction(motion, rect)) =>
           newScrollTop(withTopObstruction(motion, rect), scrollTop) >= decidedScrollTop]_vars

\* C11 amended: when no numeric snap threshold is set and start() succeeds
\* with and without it, one more visible top obstruction never makes the
\* computed offset larger (it may make it smaller).
TopObstructionNeverIncreases ==
  [][(Revealing /\ ~motion.snap.isNumber) =>
       \A rect \in TopObstructionRects :
         ~hasNoVisibleArea(withTopObstruction(motion, rect)) =>
           newScrollTop(withTopObstruction(motion, rect), scrollTop) <= decidedScrollTop]_vars

\* C11 witness: a reveal without snapping that did not scroll, for which one
\* more top obstruction yields a smaller offset.
TopObstructionWitness ==
  /\ motionState = "done"
  /\ ~motion.snap.isNumber
  /\ scrollToCalls = <<>>
  /\ \E rect \in TopObstructionRects :
       /\ ~hasNoVisibleArea(withTopObstruction(motion, rect))
       /\ newScrollTop(withTopObstruction(motion, rect), scrollTop) < scrollTop

\* The top of the element rectangle lies in the upper half of the viewport
\* rectangle: above the viewport top plus half the viewport height.
inUpperHalf(m) ==
  2 * elementRect(m).top < 2 * viewportRect(m).top + viewportRect(m).height

\* C12: the snap rule sets the new offset to zero exactly when the snap
\* threshold is a number, the computed offset is below it and the element top
\* lies in the upper half of the viewport rectangle; otherwise the computed
\* offset is left unchanged.
SnapsExactlyInUpperHalf ==
  [][Revealing =>
       decidedScrollTop =
         IF /\ motion.snap.isNumber
            /\ alignedScrollTop(motion, scrollTop) < motion.snap.value
            /\ inUpperHalf(motion)
         THEN 0
         ELSE alignedScrollTop(motion, scrollTop)]_vars

\* The element is to be aligned at the top: on request, or because it is
\* taller than the viewport left by the obstructions.
alignsTop(m) == m.top \/ elementRect(m).height > viewportRect(m).height

\* The step decides on the offset pre, or snaps an offset pre below the
\* threshold to zero.
decidesUpToSnap(pre) ==
  \/ decidedScrollTop = pre
  \/ motion.snap.isNumber /\ pre < motion.snap.value /\ decidedScrollTop = 0

\* C13: when align-top is requested, or the capped and padded element is
\* taller than the obstruction-reduced viewport, the offset computed before
\* snapping is the current offset plus (element top - viewport top), whatever
\* the bottom overflow; for viewport height 800 and an element at top 1000 of
\* height 2000 it is 1000.
TopAlignWins ==
  [][(Revealing /\ alignsTop(motion)) =>
       /\ decidesUpToSnap(scrollTop + (elementRect(motion).top - viewportRect(motion).top))
       /\ motion = Scenario(2000) => decidedScrollTop = 1000]_vars

\* C13 witness: an element taller than the viewport, starting below the
\* viewport top and overflowing its bottom, was revealed without align-top
\* and the viewport was scrolled.
TopAlignWitness ==
  /\ motionState = "done"
  /\ ~motion.top
  /\ motion \notin Scenarios
  /\ elementRect(motion).height > viewportRect(motion).height
  /\ elementRect(motion).top > viewportRect(motion).top
  /\ bottom(elementRect(motion)) > bottom(viewportRect(motion))
  /\ Len(scrollToCalls) = 1
  /\ scrollToCalls[1].top > 0

\* The element fits, its top is not above the viewport top and its bottom is
\* below the viewport bottom.
sitsTooLow(m) ==
  /\ elementRect(m).height <= viewportRect(m).height
  /\ elementRect(m).top >= viewportRect(m).top
  /\ bottom(elementRect(m)) > bottom(viewportRect(m))

\* C14 as claimed: when the element fits, its top is not above the viewport
\* top and its bottom is below the viewport bottom, the new offset is the
\* current offset plus (element bottom - viewport bottom).
ScrollsDownByDeficit ==
  [][(Revealing /\ sitsTooLow(motion)) =>
       decidedScrollTop =
         scrollTop + (bottom(elementRect(motion)) - bottom(viewportRect(motion)))]_vars

\* C14 amended: when moreover align-top is not requested, the offset computed
\* before snapping is the current offset plus (element bottom - viewport
\* bottom); for viewport height 800 at top 0, element top 1000 and height 200,
\* scroll 0, the new offset is 400.
ScrollsDownUnlessAlignedOrSnapped ==
  [][(Revealing /\ sitsTooLow(motion) /\ ~motion.top) =>
       /\ decidesUpToSnap(scrollTop + (bottom(elementRect(motion)) - bottom(viewportRect(motion))))
       /\ motion = Scenario(200) => decidedScrollTop = 400]_vars

\* C14 witness: an element sitting too low in a viewport that does not start
\* at 0 was revealed without align-top and without snapping.
ScrollsDownWitness ==
  /\ motionState = "done"
  /\ sitsTooLow(motion)
  /\ ~motion.top
  /\ ~motion.snap.isNumber
  /\ viewportRect(motion).top > 0
  /\ Len(scrollToCalls) = 1

\* The element rectangle before padding: measured, then capped.
unpaddedRect(m) == capped(m, m.element)

noObstructions(m) == m.topObstructions = <<>> /\ m.bottomObstructions = <<>>

\* C15: with padding p and no obstructions, a reveal by the scroll-up rule
\* leaves the unpadded element top p below the viewport top (the element moves
\* by the negated change of the offset), a reveal by the scroll-down rule
\* leaves the unpadded element bottom p above the viewport bottom, and the
\* padded rectangle is the element rectangle with top reduced by p and height
\* increased by 2p.
PaddingLeavesMargin ==
  [][(Revealing /\ noObstructions(motion) /\ ~alignsTop(motion)) =>
       LET p == motion.padding
           unpadded == unpaddedRect(motion)
           v == viewportRect(motion)
       IN  /\ elementRect(motion) = Rect(unpadded.top - p, unpadded.height + 2 * p)
           /\ unpadded.top - p < v.top =>
                decidesUpToSnap(scrollTop + (unpadded.top - (v.top + p)))
           /\ (unpadded.top - p >= v.top /\ bottom(unpadded) + p > bottom(v)) =>
                decidesUpToSnap(scrollTop + (bottom(unpadded) - (bottom(v) - p)))]_vars

\* C15 witness: an element below the fold was revealed with a padding of 1
\* in a viewport without obstructions, by scrolling down.
PaddingWitness ==
  /\ motionState = "done"
  /\ noObstructions(motion)
  /\ motion.padding = 1
  /\ ~motion.snap.isNumber
  /\ sitsTooLow(motion)
  /\ ~motion.top
  /\ motion \notin Scenarios
  /\ Len(scrollToCalls) = 1
  /\ scrollToCalls[1].top > 0

\* C16: start() fails exactly when the viewport height left after
\* subtracting the obstructions is negative, and then does not scroll; a
\* height of zero is no failure.
FailsOnlyWithoutVisibleArea ==
  [][motionState = "ready" =>
       /\ (motionState' = "failed") <=> (viewportRect(motion).height < 0)
       /\ (motionState' = "done") <=> (viewportRect(motion).height >= 0)
       /\ motionState' = "failed" =>
            (scrollTop' = scrollTop /\ scrollToCalls' = scrollToCalls)]_vars

\* C16 witness: start() has failed in a viewport covered by more obstruction
\* than its height, without scrolling.
NoVisibleAreaWitness ==
  /\ motionState = "failed"
  /\ viewportRect(motion).height < 0
  /\ motion.topObstructions /= <<>>
  /\ scrollToCalls = <<>>

-----------------------------------------------------------------------------
(* up.ResponseDoc *)

\* The number of getTitle() calls made on one ResponseDoc.
MaxGetTitle == 3

NoTitle == "undefined"
NoTarget == "undefined"

\* A JavaScript value given as document, fragment or content: undefined, a
\* string of HTML or a DOM node. A string is described by what a parser finds
\* in it: its text, the selectors its elements match (none for an empty
\* string or bare text), its <head><title>, whether it holds a <script>, and
\* its <noscript> tags ("none", "plain" or "wrapped").
Value(type, kind, text, matches, title, script, noscript) ==
  [type |-> type, kind |-> kind, text |-> text, matches |-> matches,
   title |-> title, script |-> script, noscript |-> noscript]

Undefined == Value("undefined", "", "", {}, NoTitle, FALSE, "none")

EmptyString == Value("string", "", "", {}, NoTitle, FALSE, "none")

Strings(text) ==
  {Value("string", "", text, matches, title, tags[1], tags[2]) :
     matches \in SUBSET {".target"},
     title \in {NoTitle, "Title"},
     tags \in {<<FALSE, "none">>, <<TRUE, "plain">>}}

Nodes(kind, text) ==
  {Value("node", kind, text, {".target"}, title, FALSE, "none") :
     title \in {NoTitle, "Title"}}

Documents == {Undefined, EmptyString} \cup Strings("document") \cup Nodes("document", "document")

Fragments == {Undefined, EmptyString} \cup Strings("fragment") \cup Nodes("element", "fragment")

Contents == {Undefined, EmptyString} \cup Strings("content") \cup Nodes("element", "content")

DocTargets == {NoTarget, "", ".target"}

\* u.isString()
isString(value) == value.type = "string"

\* JavaScript truthiness: undefined and the empty string are falsy.
truthy(value) ==
  \/ value.type = "node"
  \/ value.type = "string" /\ value.text /= ""

\* up.ResponseDoc#wrapHTML(): <noscript> tags are wrapped, <script> tags are
\* stripped.
wrapHTML(html) ==
  [html EXCEPT !.noscript = IF @ = "plain" THEN "wrapped" ELSE @,
               !.script = FALSE]

\* up.element.createDocumentFromHTML(): always a document.
createDocumentFromHTML(html) ==
  Value("node", "document", html.text, html.matches, html.title, html.script, html.noscript)

\* up.element.createFromHTML(): the first element of the parsed HTML, if any.
createFromHTML(html) ==
  IF html.matches = {} THEN Undefined
  ELSE Value("node", "element", html.text, html.matches, NoTitle, html.script, html.noscript)

\* up.element.createFromSelector(): an empty element matching the selector.
createFromSelector(selector) ==
  Value("node", "element", "", {selector}, NoTitle, FALSE, "none")

\* up.ResponseDoc#parse()
parse(value, parseFn) ==
  IF isString(value)
  THEN IF parseFn = "createDocumentFromHTML"
       THEN createDocumentFromHTML(wrapHTML(value))
       ELSE createFromHTML(wrapHTML(value))
  ELSE value

\* up.ResponseDoc#parseDocument()
parseDocument(o) == parse(o.document, "createDocumentFromHTML")

\* up.ResponseDoc#parseFragment()
parseFragment(o) == parse(o.fragment, "createFromHTML")

\* The outcome of up.fail().
Failure(message) == [failed |-> TRUE, message |-> message, root |-> Undefined]

Returned(root) == [failed |-> FALSE, message |-> "", root |-> root]

\* parseContent() with a default for a missing target.
parseContentAnyTarget(o) ==
  LET content == IF truthy(o.content) THEN o.content ELSE EmptyString
      target == IF o.target \in {NoTarget, ""} THEN "*" ELSE o.target
      inner == IF isString(content) THEN wrapHTML(content) ELSE content
  IN  Returned([createFromSelector(target) EXCEPT
                  !.text = inner.text,
                  !.matches = @ \cup inner.matches,
                  !.script = inner.script,
                  !.noscript = inner.noscript])

\* up.ResponseDoc#parseContent()
parseContent(o) ==
  LET content == IF truthy(o.content) THEN o.content ELSE EmptyString
      inner == IF isString(content) THEN wrapHTML(content) ELSE content
  IN  IF o.target \in {NoTarget, ""}
      THEN Failure("must pass a { target } when passing { content }")
      ELSE Returned([createFromSelector(o.target) EXCEPT
                       !.text = inner.text,
                       !.matches = @ \cup inner.matches,
                       !.script = inner.script,
                       !.noscript = inner.noscript])

\* The outcome of a constructor run: the parse calls made and their result.
Constructed(calls, outcome) ==
  [calls |-> calls, failed |-> outcome.failed, message |-> outcome.message,
   root |-> outcome.root]

\* The constructor trying the fragment before the document.
constructorFragmentFirst(o) ==
  IF truthy(parseFragment(o))
  THEN Constructed(<<"parseFragment">>, Returned(parseFragment(o)))
  ELSE IF truthy(parseDocument(o))
  THEN Constructed(<<"parseFragment", "parseDocument">>, Returned(parseDocument(o)))
  ELSE Constructed(<<"parseFragment", "parseDocument", "parseContent">>, parseContent(o))

\* The constructor without the content as last resort.
constructorWithoutContent(o) ==
  IF truthy(parseDocument(o))
  THEN Constructed(<<"parseDocument">>, Returned(parseDocument(o)))
  ELSE Constructed(<<"parseDocument", "parseFragment">>, Returned(parseFragment(o)))

\* up.ResponseDoc#constructor:
\*   @root = @parseDocument(options) || @parseFragment(options) || @parseContent(options)
constructor(o) ==
  IF truthy(parseDocument(o))
  THEN Constructed(<<"parseDocument">>, Returned(parseDocument(o)))
  ELSE IF truthy(parseFragment(o))
  THEN Constructed(<<"parseDocument", "parseFragment">>, Returned(parseFragment(o)))
  ELSE Constructed(<<"parseDocument", "parseFragment", "parseContent">>, parseContent(o))

\* new up.ResponseDoc(options)
Construct ==
  /\ docState = "new"
  /\ LET built == constructor(options)
     IN  /\ docCalls' = built.calls
                          \o (IF built.failed THEN <<"up.fail", built.message>> ELSE <<>>)
         /\ docState' = IF built.failed THEN "failed" ELSE "built"
         /\ responseDoc' = IF built.failed THEN NoDoc
                           ELSE [root |-> built.root, title |-> NoTitle, titleParsed |-> FALSE]
  /\ UNCHANGED <<options, titles, layerVars, runVars, animVars, revealVars, utilVars>>

\* getTitle() caching by the title instead of the flag.
getTitleUnlessTitle(doc) ==
  IF doc.title = NoTitle
  THEN [doc |-> [doc EXCEPT !.title = doc.root.title, !.titleParsed = TRUE],
        calls |-> <<"querySelector">>]
  ELSE [doc |-> doc, calls |-> <<>>]

\* up.ResponseDoc#getTitle(): the ResponseDoc after the call, and the queries
\* of the root it made.
getTitle(doc) ==
  IF ~doc.titleParsed
  THEN [doc |-> [doc EXCEPT !.title = doc.root.title, !.titleParsed = TRUE],
        calls |-> <<"querySelector">>]
  ELSE [doc |-> doc, calls |-> <<>>]

\* A caller calls getTitle().
GetTitle ==
  /\ docState = "built"
  /\ Len(titles) < MaxGetTitle
  /\ responseDoc' = getTitle(responseDoc).doc
  /\ docCalls' = docCalls \o getTitle(responseDoc).calls
  /\ titles' = Append(titles, getTitle(responseDoc).doc.title)
  /\ UNCHANGED <<options, docState, layerVars, runVars, animVars, revealVars, utilVars>>

\* Some options are about to be given to the ResponseDoc constructor.
ResponseDocInit ==
  /\ LayersInit
  /\ MotionInit
  /\ UtilInit
  /\ options \in [document : Documents, fragment : Fragments,
                  content : Contents, target : DocTargets]
  /\ responseDoc = NoDoc
  /\ docState = "new"
  /\ docCalls = <<>>
  /\ titles = <<>>

ResponseDocNext == Construct \/ GetTitle

SpecResponseDoc == ResponseDocInit /\ [][ResponseDocNext]_vars

\* The constructor has run on the options.
constructorRan == docState \in {"built", "failed"}

\* An input the caller gave as document: a string (even an empty one) or a
\* node.
documentGiven == options.document /= Undefined

\* The fragment input yields a root: a node, or a string holding an element.
fragmentYieldsRoot ==
  \/ options.fragment.type = "node"
  \/ options.fragment.type = "string" /\ options.fragment.matches /= {}

docCalled(call) == \E i \in DOMAIN docCalls : docCalls[i] = call

isConstructorCall(call) == call /= "querySelector"

\* The calls the constructor made.
constructorCalls == SelectSeq(docCalls, isConstructorCall)

\* C17: the root is built from the first applicable input in the order
\* document, fragment, content: with a document the fragment and the content
\* are not even parsed, without a document a fragment yielding a root is
\* used, and the content is parsed only when neither yields a root.
FirstApplicableInput ==
  constructorRan =>
    /\ documentGiven =>
         /\ docState = "built"
         /\ responseDoc.root.kind = "document"
         /\ responseDoc.root.text = options.document.text
         /\ constructorCalls = <<"parseDocument">>
    /\ (~documentGiven /\ fragmentYieldsRoot) =>
         /\ docState = "built"
         /\ responseDoc.root.text = options.fragment.text
         /\ constructorCalls = <<"parseDocument", "parseFragment">>
    /\ docCalled("parseContent") <=> (~documentGiven /\ ~fragmentYieldsRoot)

\* C17 witness: a ResponseDoc was built from options holding a document, a
\* fragment, a content and a target.
AllInputsGivenWitness ==
  /\ docState = "built"
  /\ options.document.type = "string"
  /\ options.fragment.type = "node"
  /\ truthy(options.content)
  /\ options.target = ".target"
  /\ responseDoc.root.kind = "document"

\* C18: constructing from content without a target (no document or fragment
\* yielding a root) fails with the usage error naming the target, and
\* constructing with a target and no document, fragment or content gives an
\* empty root element matching the target.
ContentNeedsTarget ==
  constructorRan =>
    /\ (~documentGiven /\ ~fragmentYieldsRoot /\ truthy(options.content)
          /\ options.target \in {NoTarget, ""}) =>
         /\ docState = "failed"
         /\ constructorCalls = <<"parseDocument", "parseFragment", "parseContent", "up.fail",
                                 "must pass a { target } when passing { content }">>
    /\ (~documentGiven /\ options.fragment = Undefined /\ ~truthy(options.content)
          /\ options.target = ".target") =>
         /\ docState = "built"
         /\ responseDoc.root = createFromSelector(".target")

\* C18 witness: the construction from a content string without a target has
\* failed.
ContentWithoutTargetWitness ==
  /\ docState = "failed"
  /\ options.content.type = "string"
  /\ truthy(options.content)
  /\ options.target = NoTarget

\* C19 as claimed: a constructed ResponseDoc has a root, and the construction
\* fails only when no document, fragment or content is given and no target
\* either.
FailsOnlyWithoutAnyInput ==
  /\ docState = "built" => responseDoc.root.type = "node"
  /\ docState = "failed" =>
       /\ ~documentGiven
       /\ ~fragmentYieldsRoot
       /\ ~truthy(options.content)
       /\ options.target \in {NoTarget, ""}

\* C19 amended: a constructed ResponseDoc has a root, and the construction
\* fails exactly when neither the document nor the fragment yields a root and
\* no target is given, whether or not a content is given.
FailsOnlyWithoutRootAndTarget ==
  /\ docState = "built" => responseDoc.root.type = "node"
  /\ constructorRan =>
       (docState = "failed" <=>
          (~documentGiven /\ ~fragmentYieldsRoot /\ options.target \in {NoTarget, ""}))

\* C19 witness: a ResponseDoc was built from a target alone, and has a root.
RootFromTargetWitness ==
  /\ docState = "built"
  /\ ~documentGiven
  /\ options.fragment = EmptyString
  /\ options.content = Undefined
  /\ responseDoc.root.type = "node"

\* The number of times the root was searched for a title.
titleQueries == Cardinality({i \in DOMAIN docCalls : docCalls[i] = "querySelector"})

\* C20: over any sequence of getTitle() calls on one ResponseDoc the root is
\* searched for a title at most once, also when there is none, and every call
\* returns the same (possibly absent) title.
TitleQueriedOnce ==
  docState = "built" =>
    /\ titleQueries <= 1
    /\ titles /= <<>> => titleQueries = 1
    /\ \A i \in DOMAIN titles : titles[i] = responseDoc.root.title

\* C20 witness: getTitle() was called several times on a ResponseDoc without
\* a title.
NoTitleCachedWitness ==
  /\ docState = "built"
  /\ Len(titles) >= 2
  /\ responseDoc.root.title = NoTitle
  /\ titleQueries = 1

-----------------------------------------------------------------------------
(* up.util *)

\* The largest count given to times().
MaxCount == 3

\* The number of calls of one memoized function.
MaxCalls == 3

\* The CoffeeScript range [from..to]: it counts up when from <= to, and
\* counts down to `to` otherwise; it is never empty.
range(from, to) ==
  IF from <= to
  THEN [i \in 1..(to - from + 1) |-> from + (i - 1)]
  ELSE [i \in 1..(from - to + 1) |-> from - (i - 1)]

\* up.util.times(count, block): the arguments of the calls of block, in order.
\*   block(iteration) for iteration in [0..(count - 1)]
times(n) == range(0, n - 1)

\* A caller calls up.util.times(count, block).
Times ==
  /\ ~timesRan
  /\ timesRan' = TRUE
  /\ blockCalls' = times(count)
  /\ UNCHANGED <<count, memoVars, microtaskVars, equalVars,
                 layerVars, runVars, animVars, revealVars, docVars>>

NoValue == "undefined"

\* The argument lists the memoized function is called with.
Arguments == {<<1>>, <<2>>}

\* The function given to memoize(): its value depends on its arguments.
func(args) == IF args = <<1>> THEN "f(1)" ELSE "f(2)"

\* The outcome of one call: a returned value or a thrown error.
Outcome(args, kind, value) == [args |-> args, kind |-> kind, value |-> value]

\* The wrapper setting `cached` only once func has returned.
memoizedCachingAfter(m, args, throws) ==
  IF m.cached
  THEN [memo |-> m, ran |-> <<>>, outcome |-> Outcome(args, "return", m.cachedValue)]
  ELSE IF throws
  THEN [memo |-> m, ran |-> <<args>>, outcome |-> Outcome(args, "throw", NoValue)]
  ELSE [memo |-> [cached |-> TRUE, cachedValue |-> func(args)],
        ran |-> <<args>>,
        outcome |-> Outcome(args, "return", func(args))]

\* The function returned by up.util.memoize(func), called with `args` while
\* its closure is m; `throws` tells whether func throws when it is run:
\*   if cached then return cachedValue
\*   else cached = true; return cachedValue = func.apply(this, args)
memoized(m, args, throws) ==
  IF m.cached
  THEN [memo |-> m, ran |-> <<>>, outcome |-> Outcome(args, "return", m.cachedValue)]
  ELSE IF throws
  THEN [memo |-> [m EXCEPT !.cached = TRUE],
        ran |-> <<args>>,
        outcome |-> Outcome(args, "throw", NoValue)]
  ELSE [memo |-> [cached |-> TRUE, cachedValue |-> func(args)],
        ran |-> <<args>>,
        outcome |-> Outcome(args, "return", func(args))]

\* A caller calls the memoized function.
CallMemoized ==
  /\ Len(returns) < MaxCalls
  /\ \E args \in Arguments, throws \in BOOLEAN :
       /\ memo' = memoized(memo, args, throws).memo
       /\ funcCalls' = funcCalls \o memoized(memo, args, throws).ran
       /\ returns' = Append(returns, memoized(memo, args, throws).outcome)
  /\ UNCHANGED <<timesVars, microtaskVars, equalVars,
                 layerVars, runVars, animVars, revealVars, docVars>>

\* up.util.abortableMicrotask(task): aborted = false; the callback is queued.
AbortableMicrotask ==
  /\ microtask = "none"
  /\ microtask' = "queued"
  /\ aborted' = FALSE
  /\ UNCHANGED <<taskRuns, timesVars, memoVars, equalVars,
                 layerVars, runVars, animVars, revealVars, docVars>>

\* The function returned by abortableMicrotask() is called: aborted = true
Abort ==
  /\ microtask /= "none"
  /\ aborted' = TRUE
  /\ UNCHANGED <<microtask, taskRuns, timesVars, memoVars, equalVars,
                 layerVars, runVars, animVars, revealVars, docVars>>

\* The queued callback running the task whatever the flag.
callbackIgnoringAbort(flag, runs) == runs + 1

\* The queued callback: task() unless aborted
callback(flag, runs) == IF flag THEN runs ELSE runs + 1

\* The microtask fires.
MicrotaskFires ==
  /\ microtask = "queued"
  /\ microtask' = "fired"
  /\ taskRuns' = callback(aborted, taskRuns)
  /\ UNCHANGED <<aborted, timesVars, memoVars, equalVars,
                 layerVars, runVars, animVars, revealVars, docVars>>

\* Callers are about to use times(), a memoized function and an abortable
\* microtask.
UtilStart ==
  /\ LayersInit
  /\ MotionInit
  /\ DocInit
  /\ count \in 0..MaxCount
  /\ timesRan = FALSE
  /\ blockCalls = <<>>
  /\ MemoizeIdle
  /\ MicrotaskIdle
  /\ EqualIdle

UtilNext ==
  \/ Times
  \/ CallMemoized
  \/ AbortableMicrotask
  \/ Abort
  \/ MicrotaskFires

SpecUtil == UtilStart /\ [][UtilNext]_vars

\* C21: times(count, block) calls block exactly count times, with the
\* indices 0 to count - 1 in order, for every count >= 0.
TimesCallsBlockCountTimes ==
  timesRan => blockCalls = [i \in 1..count |-> i - 1]

\* C22: the function given to memoize() is run at most once over any
\* sequence of calls, whatever the arguments, and every call after the first
\* returns what the first call returned.
MemoizedRunsOnce ==
  /\ Len(funcCalls) <= 1
  /\ returns /= <<>> => funcCalls = <<returns[1].args>>
  /\ \A i \in 2..Len(returns) :
       /\ returns[i].kind = "return"
       /\ returns[1].kind = "return" => returns[i].value = returns[1].value

\* C22 witness: the memoized function was called with other arguments after
\* its first call and returned the first value.
MemoizedWitness ==
  /\ Len(returns) >= 2
  /\ returns[1] = Outcome(<<1>>, "return", "f(1)")
  /\ returns[2] = Outcome(<<2>>, "return", "f(1)")

\* C30: the task is not run if abort was called before the microtask fires,
\* it is run exactly once if abort was not called before then, and nothing
\* else, a later abort included, changes the number of its runs.
AbortBeforeFiringPreventsTask ==
  [][IF microtask = "queued" /\ microtask' = "fired"
     THEN taskRuns' = IF aborted THEN 0 ELSE 1
     ELSE taskRuns' = taskRuns]_vars

\* C30 witness: the task was aborted before its microtask fired, and did not
\* run.
AbortedTaskWitness ==
  /\ microtask = "fired"
  /\ aborted
  /\ taskRuns = 0

\* The largest number held by a compared object.
MaxNumber == 2

Keys == {"a", "b"}

\* JavaScript values: numbers, strings and plain objects.  A plain object is
\* the sequence of its entries in insertion order, which is the order of
\* Object.keys().
Number(n) == [type |-> "number", number |-> n, text |-> "", entries |-> <<>>]

String(text) == [type |-> "string", number |-> 0, text |-> text, entries |-> <<>>]

Object(entries) == [type |-> "object", number |-> 0, text |-> "", entries |-> entries]

Numbers == {Number(n) : n \in 1..MaxNumber}

Entries == {<<k, v>> : k \in Keys, v \in Numbers}

PlainObjects ==
  {Object(entries) : entries \in
     {es \in SeqsUpTo(Entries, Cardinality(Keys)) :
        \A i, j \in DOMAIN es : i /= j => es[i][1] /= es[j][1]}}

\* Object.keys(object)
keys(object) == [i \in DOMAIN object.entries |-> String(object.entries[i][1])]

hasKey(object, key) == \E i \in DOMAIN object.entries : object.entries[i][1] = key.text

\* object[key]: undefined for a key the object does not hold.
get(object, key) ==
  IF hasKey(object, key)
  THEN object.entries[CHOOSE i \in DOMAIN object.entries : object.entries[i][1] = key.text][2]
  ELSE [type |-> "undefined", number |-> 0, text |-> "", entries |-> <<>>]

\* up.util.isOptions()
isOptions(value) == value.type = "object"

\* up.util.isEqual(a, b), and up.util.isEqualList(a, b) for the two lists of
\* keys:
\*   if typeof(a) != typeof(b) then false
\*   else if isOptions(a) && isOptions(b)
\*     if isEqualList(aKeys, bKeys) then every aKeys, (aKey) -> isEqual(a[aKey], b[aKey])
\*   else a == b
RECURSIVE isEqual(_, _)
isEqual(a, b) ==
  IF a.type /= b.type THEN FALSE
  ELSE IF isOptions(a) /\ isOptions(b)
  THEN LET aKeys == keys(a)
           bKeys == keys(b)
       IN  IF /\ Len(aKeys) = Len(bKeys)
              /\ \A index \in DOMAIN aKeys : isEqual(aKeys[index], bKeys[index])
           THEN \A index \in DOMAIN aKeys : isEqual(get(a, aKeys[index]), get(b, aKeys[index]))
           ELSE FALSE
  ELSE a = b

\* A caller compares a with b, and b with a.
IsEqual ==
  /\ equal = <<>>
  /\ equal' = <<isEqual(operands[1], operands[2]), isEqual(operands[2], operands[1])>>
  /\ UNCHANGED <<operands, timesVars, memoVars, microtaskVars,
                 layerVars, runVars, animVars, revealVars, docVars>>

\* Two values are about to be compared.
IsEqualInit ==
  /\ LayersInit
  /\ MotionInit
  /\ DocInit
  /\ TimesIdle
  /\ MemoizeIdle
  /\ MicrotaskIdle
  /\ operands \in (Numbers \cup PlainObjects) \X (Numbers \cup PlainObjects)
  /\ equal = <<>>

IsEqualNext == IsEqual

SpecIsEqual == IsEqualInit /\ [][IsEqualNext]_vars

\* The set of the key/value entries of a plain object.
entriesOf(object) == {object.entries[i] : i \in DOMAIN object.entries}

\* C29: for any two plain objects holding the same set of key/value entries
\* isEqual returns true, whatever the order of their keys, and isEqual(a, b)
\* equals isEqual(b, a).
EqualWhateverTheKeyOrder ==
  (equal /= <<>> /\ isOptions(operands[1]) /\ isOptions(operands[2])) =>
    /\ entriesOf(operands[1]) = entriesOf(operands[2]) => equal[1]
    /\ equal[1] = equal[2]

(***************************************************************************)
(* OpenLayer#execute(): the steps from the push to the compilation         *)
(***************************************************************************)

\* The calls of execute() from the push to the compilation, in program
\* order.
OpeningCalls == <<"push">> \o AttachCalls \o <<"hello">>

isOpeningCall(call) == \E i \in 1..Len(OpeningCalls) : OpeningCalls[i] = call

openingCalls(c) == SelectSeq(log[c], isOpeningCall)

isPrefix(s, t) == Len(s) <= Len(t) /\ s = SubSeq(t, 1, Len(s))

\* C23: in a run of execute() that has gone past the up:layer:open event the
\* calls push, createElements, setupHandlers, handleHistory, setSource,
\* finalizeElement and hello happen once each and in this order, and when
\* the compilation starts the layer is in the stack and every call before
\* hello has been made.
OpeningStepsInOrder ==
  \A c \in Changes :
    /\ isPrefix(openingCalls(c), OpeningCalls)
    /\ pc[c] = "hello" =>
         /\ c \in InStack
         /\ openingCalls(c) = <<"push">> \o AttachCalls
    /\ (called(c, "peel") /\ pc[c] \notin {"push", "attach", "hello"}) =>
         openingCalls(c) = OpeningCalls

OpeningStepsWitness ==
  \E c \in Changes :
    /\ openingCalls(c) = OpeningCalls
    /\ c \in InStack
    /\ pc[c] = "done"

\* C24: a layer is never pushed under a base layer that is closed at the
\* moment of the push, also when a listener of up:layer:open has closed the
\* base layer without preventing the event.
PushedUnderOpenBaseLayer ==
  [][\A c \in Changes :
       (c \notin InStack /\ c \in InStack') => isOpen(change[c].baseLayer)]_vars

(***************************************************************************)
(* OpenLayer#execute(): other runs between the push and the return         *)
(***************************************************************************)

\* Run a has pushed its layer and has neither returned nor failed.
pushedAndRunning(a) == called(a, "push") /\ pc[a] /= "done"

\* Run c makes its peel or its push in this step.
PeelsOrPushes(c) == pc[c] \in {"peel", "push"} /\ pc'[c] /= pc[c]

\* Run c was entered from a listener or compiler that a statement of run a
\* was running: c is above a on the call stack, and the run below c has
\* made the call up.layer.open as its last call.
enteredInside(c, a) ==
  \E i, j \in 1..Len(callStack) :
    /\ i < j
    /\ callStack[i] = a
    /\ callStack[j] = c
    /\ LET caller == callStack[j - 1]
       IN  /\ log[caller] /= <<>>
           /\ log[caller][Len(log[caller])] = "up.layer.open"

\* C25 as claimed: between the push of the layer of run a and the return or
\* failure of a, no peel or push of another run changes the layers.
NoOtherRunAfterPush ==
  [][\A a, c \in Changes :
       (a /= c /\ pushedAndRunning(a) /\ PeelsOrPushes(c))
         => UNCHANGED <<stack, lifecycle>>]_vars

\* C25: between the push of the layer of run a and the return or failure of
\* a, the only other runs that peel or push are runs entered synchronously
\* from a listener or compiler called by a statement of a; a run entered by
\* the arrival of a response never peels or pushes in between.
OnlyNestedRunsAfterPush ==
  [][\A a, c \in Changes :
       (a /= c /\ pushedAndRunning(a) /\ PeelsOrPushes(c))
         => enteredInside(c, a)]_vars

NestedRunWitness ==
  \E a, c \in Changes :
    /\ a /= c
    /\ pushedAndRunning(a)
    /\ enteredInside(c, a)
    /\ called(c, "push")

(***************************************************************************)
(* OpenLayer#preflightProps()                                              *)
(***************************************************************************)

\* preflightProps() of change c is computed in this step.
ComputesPreflightProps(c) == pc[c] = "idle" /\ pc'[c] = "requested"

\* C26: preflightProps() is computed before there is a response and returns
\* the base layer as layer, the mode and the target of the options and the
\* context of a layer built from the options; it leaves the layers of the
\* stack and their state unchanged and emits no event.
PreflightPropsWithoutEffect ==
  [][\A c \in Changes :
       ComputesPreflightProps(c) =>
         /\ change'[c].preflight =
              [layer |-> change'[c].baseLayer,
               mode |-> change'[c].mode,
               context |-> change'[c].context,
               target |-> change'[c].target]
         /\ response[c] = [doc |-> {}, closeSignal |-> FALSE]
         /\ UNCHANGED <<stack, lifecycle, parent, response, log>>]_vars

PreflightPropsWitness ==
  \E c \in Changes :
    /\ pc[c] = "requested"
    /\ change[c].preflight.layer = change[c].baseLayer
    /\ change[c].baseLayer /= stack[Len(stack)]
    /\ Len(stack) > 1

(***************************************************************************)
(* RevealMotion#_substractObstructions() with several obstructions         *)
(***************************************************************************)

\* The number of visible obstructions of one kind.
MaxSubtracted == 2

\* RevealMotions of one element with the default options, in a viewport
\* with up to MaxSubtracted fixed-top and fixed-bottom obstructions.
ObstructedMotions ==
  [ viewport : Viewports,
    element : {Rect(1, 1)},
    snap : {NoSnap},
    padding : {0},
    top : {FALSE},
    max : {0},
    topObstructions : SeqsUpTo(TopObstructionRects, MaxSubtracted),
    bottomObstructions : SeqsUpTo(BottomObstructionRects, MaxSubtracted) ]

ObstructionsInit ==
  /\ LayersInit
  /\ DocInit
  /\ UtilInit
  /\ motion \in ObstructedMotions
  /\ scrollTop = 0
  /\ scrollToCalls = <<>>
  /\ motionState = "ready"

ObstructionsNext == Start

SpecObstructions == ObstructionsInit /\ [][ObstructionsNext]_vars

Max(a, b) == IF a > b THEN a ELSE b

\* The lowest of the given edges and the edge of the viewport.
RECURSIVE lowest(_, _)
lowest(edge, edges) ==
  IF edges = {} THEN edge
  ELSE LET y == CHOOSE z \in edges : TRUE
       IN  lowest(Max(edge, y), edges \ {y})

\* The highest of the given edges and the edge of the viewport.
RECURSIVE highest(_, _)
highest(edge, edges) ==
  IF edges = {} THEN edge
  ELSE LET y == CHOOSE z \in edges : TRUE
       IN  highest(Min(edge, y), edges \ {y})

\* The obstructions in the order p.
reordered(obstructions, p) == [i \in 1..Len(obstructions) |-> obstructions[p[i]]]

orders(obstructions) == Permutations(1..Len(obstructions))

\* C27: the viewport left by the obstructions reaches from the lowest bottom
\* edge of the intruding fixed-top obstructions to the highest top edge of
\* the intruding fixed-bottom obstructions; fixed-top obstructions leave the
\* bottom edge alone, fixed-bottom obstructions the top edge,
\* obstructions that do not intrude change nothing, and the order of the
\* obstructions of one kind makes no difference.
ObstructionsLeaveRegionBetween ==
  LET v == getViewportRect(motion)
      tops == motion.topObstructions
      bottoms == motion.bottomObstructions
      intrudesTop(o) == bottom(o) > v.top
      intrudesBottom(o) == o.top < bottom(v)
      afterTop == substractTop(v, tops, 1)
      left == viewportRect(motion)
  IN  /\ left.top = lowest(v.top, {bottom(tops[i]) : i \in {j \in 1..Len(tops) : intrudesTop(tops[j])}})
      /\ bottom(left) = highest(bottom(v), {bottoms[i].top : i \in {j \in 1..Len(bottoms) : intrudesBottom(bottoms[j])}})
      /\ bottom(afterTop) = bottom(v)
      /\ substractBottom(afterTop, bottoms, 1).top = afterTop.top
      /\ substractTop(v, SelectSeq(tops, intrudesTop), 1) = afterTop
      /\ substractBottom(afterTop, SelectSeq(bottoms, intrudesBottom), 1) = left
      /\ \A p \in orders(tops) : substractTop(v, reordered(tops, p), 1) = afterTop
      /\ \A p \in orders(bottoms) :
           substractBottom(afterTop, reordered(bottoms, p), 1) = left

ObstructionsWitness ==
  LET v == getViewportRect(motion)
      tops == motion.topObstructions
      bottoms == motion.bottomObstructions
  IN  /\ motionState /= "ready"
      /\ Len(tops) = 2
      /\ bottom(tops[1]) > bottom(tops[2])
      /\ bottom(tops[2]) > v.top
      /\ Len(bottoms) = 2
      /\ bottoms[1].top > bottoms[2].top
      /\ bottoms[1].top < bottom(v)

(***************************************************************************)
(* RevealMotion#start(): the call of scrollTo                              *)
(***************************************************************************)

\* start() runs in this step.
Starts == motionState = "ready" /\ motionState' /= "ready"

\* The calls of scrollTo made in this step.
newScrollToCalls ==
  SubSeq(scrollToCalls', Len(scrollToCalls) + 1, Len(scrollToCalls'))

\* C28: a start() that decides on an offset calls scrollTo exactly when the
\* offset after the snap rule differs from the current scroll offset, once,
\* with the options of the motion and the new offset as top; otherwise it
\* makes no call and leaves the scroll offset of the viewport as it was.
ScrollsExactlyWhenOffsetDiffers ==
  [][Starts =>
       LET final == IF snaps(motion, alignedScrollTop(motion, scrollTop))
                    THEN 0
                    ELSE alignedScrollTop(motion, scrollTop)
       IN  /\ SubSeq(scrollToCalls', 1, Len(scrollToCalls)) = scrollToCalls
           /\ IF motionState' = "done" /\ final /= scrollTop
              THEN /\ Len(newScrollToCalls) = 1
                   /\ newScrollToCalls[1].top = final
                   /\ newScrollToCalls[1].snap = motion.snap
                   /\ newScrollToCalls[1].padding = motion.padding
                   /\ newScrollToCalls[1].max = motion.max
              ELSE /\ newScrollToCalls = <<>>
                   /\ scrollTop' = scrollTop]_vars

\* start() has scrolled to zero by the snap rule, and has passed the options on.
ScrollToWitness ==
  /\ motionState = "done"
  /\ Len(scrollToCalls) = 1
  /\ scrollToCalls[1].top = 0
  /\ scrollToCalls[1].snap = motion.snap
  /\ motion.snap.isNumber
  /\ motion.padding = 1

====
